---- MODULE Spec2Model ----
(***************************************************************************)
(* GAUR fraud-triage pipeline: the lexical scorer (FraudDetector), the AI  *)
(* adapters (GPTHTMLFraudDetector, GPTVisionFraudDetector,                 *)
(* VisionFraudDetector) and the two scraping runs that classify posts and  *)
(* persist the accepted ones (FacebookFeedScraper, FacebookSearchScraper). *)
(*                                                                         *)
(* Scores are kept in hundredths (0.15 is 15, 1.0 is 100).  Every score    *)
(* the lexical scorer can produce is a sum of multiples of 0.05, and for   *)
(* each of them the IEEE double the code computes compares with 0.4, 0.5   *)
(* and 0.7 exactly as the decimal does (3 * 0.15 is 0.44999999999999996,   *)
(* still between 0.4 and 0.5), so the integer comparisons below are the    *)
(* code's comparisons.                                                     *)
(*                                                                         *)
(* Text is a TLA+ string.  Devanagari code points are written in ASCII:    *)
(* a letter (category Lo, a word character for the regex engine) is "_"    *)
(* followed by a Latin letter, a vowel sign or other mark (Mn/Mc, not a    *)
(* word character) is "^" followed by a punctuation sign.  No Latin        *)
(* keyword or pattern contains "_" or "^", so the encoding adds and loses  *)
(* no match.                                                               *)
(***************************************************************************)
EXTENDS Integers, Sequences, FiniteSets, TLC

(***************************************************************************)
(* Strings                                                                 *)
(***************************************************************************)
DigitChars == "0123456789"

CharAt(s, i) == SubSeq(s, i, i)

\* the lower-case form of each upper-case letter
LowerOf ==
  [A |-> "a", B |-> "b", C |-> "c", D |-> "d", E |-> "e", F |-> "f", G |-> "g",
   H |-> "h", I |-> "i", J |-> "j", K |-> "k", L |-> "l", M |-> "m", N |-> "n",
   O |-> "o", P |-> "p", Q |-> "q", R |-> "r", S |-> "s", T |-> "t", U |-> "u",
   V |-> "v", W |-> "w", X |-> "x", Y |-> "y", Z |-> "z"]

UpperSet == DOMAIN LowerOf
LowerSet == {LowerOf[c] : c \in UpperSet}
DigitSet == {"0", "1", "2", "3", "4", "5", "6", "7", "8", "9"}

\* the concatenation piece(1) \o ... \o piece(n), by halves
Concat(piece(_), n) ==
  LET cat[lo \in 1..(n + 1), hi \in 0..n] ==
        IF lo > hi THEN ""
        ELSE IF lo = hi THEN piece(lo)
        ELSE cat[lo, (lo + hi) \div 2] \o cat[((lo + hi) \div 2) + 1, hi]
  IN  cat[1, n]

\* str.lower() on the characters of the model's alphabet
Lower(s) ==
  IF \A i \in 1..Len(s) : CharAt(s, i) \notin UpperSet THEN s
  ELSE Concat(LAMBDA i : IF CharAt(s, i) \in UpperSet THEN LowerOf[CharAt(s, i)]
                         ELSE CharAt(s, i),
              Len(s))

\* \s of the regex engine and the characters str.strip() removes
IsSpace(c) == c \in {" ", "\t", "\n"}

\* \d
IsDigit(c) == c \in DigitSet

\* \w: alphanumerics and the underscore
IsWord(c) == c \in DigitSet \/ c \in LowerSet \/ c \in UpperSet \/ c = "_"

\* len(text.strip()) == 0
IsBlank(s) == \A i \in 1..Len(s) : IsSpace(CharAt(s, i))

\* k occurs in s starting at position i
MatchAt(s, i, k) == i >= 1 /\ i + Len(k) - 1 <= Len(s) /\ SubSeq(s, i, i + Len(k) - 1) = k

\* the Python test `k in s`
Contains(s, k) ==
  LET n == Len(k)
  IN  \E i \in 1..(Len(s) - n + 1) : SubSeq(s, i, i + n - 1) = k

\* str(n) for a natural number
Str(n) ==
  LET digits[m \in 0..n] ==
        IF m < 10 THEN CharAt(DigitChars, m + 1)
        ELSE digits[m \div 10] \o CharAt(DigitChars, (m % 10) + 1)
  IN  digits[n]

\* sep.join(parts)
Join(sep, parts) ==
  LET joined[i \in 0..Len(parts)] ==
        IF i = 0 THEN ""
        ELSE IF i = 1 THEN parts[1]
        ELSE joined[i - 1] \o sep \o parts[i]
  IN  joined[Len(parts)]

Min(a, b) == IF a <= b THEN a ELSE b
Max(a, b) == IF a >= b THEN a ELSE b

(***************************************************************************)
(* FraudDetector: the keyword list and the regex patterns                  *)
(***************************************************************************)
_load_fraud_keywords ==
  <<
      (* Payment/Financial - English *)
      "advance payment", "advance", "upfront payment", "send money", "transfer money",
      "upi", "paytm", "phonepe", "googlepay", "gpay", "payment first", "pay now",
      "bank transfer", "wire transfer", "deposit now", "booking amount",
      (* Tourism/Hotel - English *)
      "cheap hotel", "hotel booking", "cheap accommodation", "discounted stay",
      "limited offer", "book now", "hurry", "only few left", "last rooms",
      "free trip", "free stay", "urgent booking", "70% off", "80% off", "90% off",
      "luxury resort", "beachfront", "sea view", "private pool",
      (* Urgency/Pressure *)
      "urgent", "immediately", "today only", "expires today", "last chance",
      "limited time", "act now", "don't miss", "exclusive deal", "special offer",
      (* Investment Scams *)
      "guaranteed returns", "double your money", "triple your investment",
      "risk-free", "no risk", "100% profit", "passive income", "work from home",
      "earn lakhs", "earn crores", "get rich quick", "easy money",
      (* Marketplace/Trade *)
      "cash on delivery not available", "advance only", "no cod",
      "original product", "brand new", "sealed pack", "factory price",
      "wholesale price", "dealer price", "imported", "usa imported",
      (* Contact/Communication red flags *)
      "whatsapp only", "call me", "dm for details", "inbox me",
      "telegram", "chat now", "message for price", "serious buyers only",
      (* Hindi (Devanagari) *)
      "_p^=_s^. _v^._j^*", "_e_d_w^:^~_s", "_b^,_k^;^~_g", "_s_s^#_t^: _h^*_q_l", "_m^,_f^#_t",
      "_t^,_r^~_t", "_a_j _h^|", "_g^:_r^~_q^|_d", "_r^;_q_r^#_n", "_p^=_s^: _k_m^:_e^~",
      (* Marathi (Devanagari) *)
      "_p^=_s^. _p^:_x_w^:", "_b^,_k^;^~_g", "_s^#_w_s^#_t", "_m^*_f_t",
      (* Romanized Hindi/Marathi *)
      "paise bhejo", "booking karo", "sasta hotel", "muft",
      "guarantee", "paisa kamao", "jaldi karo",
      (* Gambling *)
      "bet", "betting", "satta", "matka", "lottery", "jackpot",
      "casino", "poker", "roulette", "gambling", "games", "earn by playing",
      (* Prostitution (subtle detection) *)
      "massage service", "escort", "female companion", "full service",
      "call girl", "vip service", "private service", "24/7 available",
      (* Fake documents *)
      "fake certificate", "duplicate", "passport", "driving license",
      "aadhaar", "pan card", "marksheet", "degree certificate",
      (* Cryptocurrency scams *)
      "bitcoin", "crypto", "trading bot", "forex", "binary options",
      "mining", "nft", "web3", "pump and dump"
  >>

\* `weight` in hundredths
_load_fraud_patterns ==
  << [name |-> "phone_number_in_text",     weight |-> 20],
     [name |-> "multiple_payment_methods", weight |-> 15],
     [name |-> "excessive_discounts",      weight |-> 25],
     [name |-> "urgency_pressure",         weight |-> 20],
     [name |-> "guaranteed_returns",       weight |-> 30] >>

\* FraudDetector.__init__: the state of a detector instance
FraudDetector ==
  [fraud_keywords |-> _load_fraud_keywords, fraud_patterns |-> _load_fraud_patterns]

\* \b at the gap before position i of s
WordBoundary(s, i) ==
  LET before == i > 1 /\ i - 1 <= Len(s) /\ IsWord(CharAt(s, i - 1))
      after  == i >= 1 /\ i <= Len(s) /\ IsWord(CharAt(s, i))
  IN  before # after

\* \d{10} at positions i .. i+9
TenDigitsAt(s, i) ==
  i >= 1 /\ i + 9 <= Len(s) /\ \A j \in i..(i + 9) : IsDigit(CharAt(s, j))

\* the position after a run of \s* starting at i
SkipSpace(s, i) ==
  IF \E j \in i..Len(s) : ~IsSpace(CharAt(s, j))
    THEN CHOOSE j \in i..Len(s) :
           ~IsSpace(CharAt(s, j)) /\ \A h \in i..(j - 1) : IsSpace(CharAt(s, h))
    ELSE Max(i, Len(s) + 1)

\* some alternative of `alts` occurs in s
ContainsAny(s, alts) == \E k \in alts : Contains(s, k)

\* r'\b\d{10}\b|\b\+91[\s-]?\d{10}\b'
PhoneNumber(s) ==
  \E i \in 1..Len(s) :
    \/ WordBoundary(s, i) /\ TenDigitsAt(s, i) /\ WordBoundary(s, i + 10)
    \/ /\ WordBoundary(s, i)
       /\ MatchAt(s, i, "+91")
       /\ \/ TenDigitsAt(s, i + 3) /\ WordBoundary(s, i + 13)
          \/ /\ i + 3 <= Len(s)
             /\ (IsSpace(CharAt(s, i + 3)) \/ CharAt(s, i + 3) = "-")
             /\ TenDigitsAt(s, i + 4)
             /\ WordBoundary(s, i + 14)

\* [567890]\d% at position i
DiscountAt(s, i) ==
  /\ i >= 1 /\ i + 2 <= Len(s)
  /\ CharAt(s, i) \in {"5", "6", "7", "8", "9", "0"}
  /\ IsDigit(CharAt(s, i + 1))
  /\ CharAt(s, i + 2) = "%"

\* r'([567890]\d%\s*(off|discount))|((off|discount)\s*[567890]\d%)'
ExcessiveDiscounts(s) ==
  \E i \in 1..Len(s) :
    \/ DiscountAt(s, i) /\ \E w \in {"off", "discount"} : MatchAt(s, SkipSpace(s, i + 3), w)
    \/ \E w \in {"off", "discount"} :
         MatchAt(s, i, w) /\ DiscountAt(s, SkipSpace(s, i + Len(w)))

\* re.search(pattern, text_lower) for the pattern of that name
re_search(name, s) ==
  CASE name = "phone_number_in_text" -> PhoneNumber(s)
    [] name = "multiple_payment_methods" ->
         ContainsAny(s, {"upi", "paytm", "phonepe", "googlepay", "gpay", "bhim"})
    [] name = "excessive_discounts" -> ExcessiveDiscounts(s)
    [] name = "urgency_pressure" ->
         ContainsAny(s, {"urgent", "hurry", "limited", "today only", "last chance", "act now"})
    [] name = "guaranteed_returns" ->
         ContainsAny(s, {"guaranteed", "100%", "risk-free", "risk free", "riskfree",
                         "double your money"})

\* any(k in keyword_str for k in triggers)
AnyIn(triggers, keyword_str) == \E i \in 1..Len(triggers) : Contains(keyword_str, triggers[i])

\* a chain that tests the investment triggers before the hotel triggers
_classify_fraud_type_investment_first(keywords, text) ==
  LET keyword_str == Lower(Join(" ", keywords))
  IN  IF AnyIn(<<"investment", "returns", "profit", "earn", "income">>, keyword_str)
        THEN "investment_scam"
      ELSE IF AnyIn(<<"hotel", "booking", "resort", "stay", "accommodation">>, keyword_str)
        THEN "hotel_booking_scam"
      ELSE IF AnyIn(<<"lottery", "jackpot", "satta", "bet", "casino">>, keyword_str)
        THEN "gambling_scam"
      ELSE IF AnyIn(<<"massage", "escort", "companion", "service">>, keyword_str)
        THEN "prostitution_racket"
      ELSE IF AnyIn(<<"certificate", "passport", "license", "aadhaar", "pan">>, keyword_str)
        THEN "fake_documents"
      ELSE IF AnyIn(<<"bitcoin", "crypto", "forex", "trading">>, keyword_str)
        THEN "cryptocurrency_scam"
      ELSE IF AnyIn(<<"advance", "payment", "upi", "transfer">>, keyword_str)
        THEN "advance_payment_fraud"
      ELSE "suspicious_content"

\* FraudDetector._classify_fraud_type; the parameter text is not read
_classify_fraud_type(keywords, text) ==
  LET keyword_str == Lower(Join(" ", keywords))
  IN  IF AnyIn(<<"hotel", "booking", "resort", "stay", "accommodation">>, keyword_str)
        THEN "hotel_booking_scam"
      ELSE IF AnyIn(<<"investment", "returns", "profit", "earn", "income">>, keyword_str)
        THEN "investment_scam"
      ELSE IF AnyIn(<<"lottery", "jackpot", "satta", "bet", "casino">>, keyword_str)
        THEN "gambling_scam"
      ELSE IF AnyIn(<<"massage", "escort", "companion", "service">>, keyword_str)
        THEN "prostitution_racket"
      ELSE IF AnyIn(<<"certificate", "passport", "license", "aadhaar", "pan">>, keyword_str)
        THEN "fake_documents"
      ELSE IF AnyIn(<<"bitcoin", "crypto", "forex", "trading">>, keyword_str)
        THEN "cryptocurrency_scam"
      ELSE IF AnyIn(<<"advance", "payment", "upi", "transfer">>, keyword_str)
        THEN "advance_payment_fraud"
      ELSE "suspicious_content"

_generate_reasoning(keywords, patterns, score) ==
  LET kwPart ==
        IF Len(keywords) > 0
          THEN << "Detected " \o Str(Len(keywords)) \o " fraud keywords: "
                  \o Join(", ", SubSeq(keywords, 1, Min(5, Len(keywords))))
                  \o (IF Len(keywords) > 5
                        THEN " and " \o Str(Len(keywords) - 5) \o " more" ELSE "") >>
          ELSE <<>>
      patPart ==
        IF Len(patterns) > 0
          THEN << "Matched " \o Str(Len(patterns)) \o " fraud patterns: "
                  \o Join(", ", patterns) >>
          ELSE <<>>
      level ==
        IF score >= 70 THEN "HIGH confidence fraud detection"
        ELSE IF score >= 40 THEN "Moderate fraud indicators present"
        ELSE "Low fraud probability"
  IN  Join(". ", kwPart \o patPart \o <<level>>) \o "."

\* a loop that assigns each matched weight to pattern_score, in place of
\* adding it
SumWeights_overwriting(ps) == IF ps = <<>> THEN 0 ELSE ps[Len(ps)].weight

\* analyze_text, lines 152-159: pattern_score, the sum of the weights of the
\* matched pattern records
SumWeights(ps) ==
  LET total[i \in 0..Len(ps)] == IF i = 0 THEN 0 ELSE total[i - 1] + ps[i].weight
  IN  total[Len(ps)]

\* analyze_text, lines 130-138: the result for text that is empty or only
\* whitespace
empty_text_result ==
  [fraud_score |-> 0, risk_level |-> "LOW", fraud_type |-> "none",
   matched_keywords |-> <<>>, matched_patterns |-> <<>>,
   reasoning |-> "No content to analyze"]

\* risk levels whose MEDIUM boundary is the retention threshold
risk_level_of_aligned(fraud_score) ==
  IF fraud_score >= 70 THEN "HIGH"
  ELSE IF fraud_score >= 50 THEN "MEDIUM"
  ELSE "LOW"

\* analyze_text, lines 167-173: the risk level of a score
risk_level_of(fraud_score) ==
  IF fraud_score >= 70 THEN "HIGH"
  ELSE IF fraud_score >= 40 THEN "MEDIUM"
  ELSE "LOW"

\* analyze_text, lines 140-191: keyword matching, pattern matching, score,
\* risk level, fraud type and reasoning of a text that has content
score_text(self, text) ==
  LET text_lower == Lower(text)
      matched_keywords ==
        SelectSeq(self.fraud_keywords, LAMBDA keyword : Contains(text_lower, Lower(keyword)))
      keyword_score == Min(Len(matched_keywords) * 15, 60)
      matched ==
        SelectSeq(self.fraud_patterns, LAMBDA p : re_search(p.name, text_lower))
      matched_patterns == [i \in 1..Len(matched) |-> matched[i].name]
      pattern_score == Min(SumWeights(matched), 40)
      fraud_score == Min(keyword_score + pattern_score, 100)
  IN  [fraud_score |-> fraud_score,
       risk_level |-> risk_level_of(fraud_score),
       fraud_type |-> _classify_fraud_type(matched_keywords, text_lower),
       matched_keywords |-> matched_keywords,
       matched_patterns |-> matched_patterns,
       reasoning |-> _generate_reasoning(matched_keywords, matched_patterns, fraud_score)]

\* a scorer without the guard of line 130
analyze_text_unguarded(self, text) == score_text(self, text)

\* FraudDetector.analyze_text on the detector state `self`
analyze_text(self, text) ==
  IF Len(text) = 0 \/ IsBlank(text)
    THEN empty_text_result
    ELSE score_text(self, text)

\* a scorer that remembers each text it has scored as a keyword
analyze_text_self_learning(self, text) ==
  [self EXCEPT !.fraud_keywords = Append(@, text)]

\* What analyze_text leaves in the detector: it reads self.fraud_keywords and
\* self.fraud_patterns and assigns to no attribute of self.
analyze_text_self(self, text) == self

(***************************************************************************)
(* The texts that are scored.  A text is a concatenation of at most        *)
(* MaxAtoms fragments, so that keywords and patterns are met whole, split  *)
(* over two fragments ("bet" + "ting games "), next to a word boundary or  *)
(* not ("+91" + "9876543210"), and not at all; "risk free bhim " matches   *)
(* two patterns and no keyword.                                            *)
(***************************************************************************)
MaxAtoms == 2

Atoms ==
  << "URGENT! 70% OFF! ", "Fresh coconuts for sale. ", "9876543210", " ",
     "bet", "ting games ", "_b^,_k^;^~_g ", "+91", "upi ",
     "risk free bhim " >>

TextsOf(n) ==
  LET upTo[k \in 0..n] ==
        IF k = 0 THEN {""}
        ELSE upTo[k - 1] \cup {t \o Atoms[i] : t \in upTo[k - 1], i \in 1..Len(Atoms)}
  IN  upTo[n]

Texts == TextsOf(MaxAtoms)

\* the results of a freshly constructed detector, computed once
ScoreTable == [t \in Texts |-> analyze_text(FraudDetector, t)]

\* detector.analyze_text(text): the table for a detector in its constructed
\* state, the computation itself for any other detector state
Analyze(self, t) ==
  IF self = FraudDetector /\ t \in Texts THEN ScoreTable[t] ELSE analyze_text(self, t)

(***************************************************************************)
(* Values the AI backends return.  A JSON object is a record whose domain  *)
(* is the set of keys that are present, so that dict.get(key, default)     *)
(* takes the default exactly when the key is absent.  A score is a tagged  *)
(* value, because the backend may send a number, NaN, a string or null.    *)
(***************************************************************************)
None == "<None>"

Number(n) == [json |-> "number", value |-> n]
NaN == [json |-> "nan", value |-> 0]
NumericString(n) == [json |-> "numeric_string", value |-> n]
TextString == [json |-> "string", value |-> 0]
Null == [json |-> "null", value |-> 0]

\* a raised exception, as the value of the expression that raised it
Raise(exc) == [exception |-> exc]
IsException(r) == "exception" \in DOMAIN r

\* dict.get(key, default)
get(d, key, default) == IF key \in DOMAIN d THEN d[key] ELSE default

\* dict.get(key): None when the key is absent
get_or_none(d, key) == IF key \in DOMAIN d THEN d[key] ELSE None

\* float(x) of a JSON value: a number stays, a numeric string is parsed,
\* any other string raises ValueError, null raises TypeError
float(x) ==
  CASE x.json = "number" -> x
    [] x.json = "nan" -> x
    [] x.json = "numeric_string" -> Number(x.value)
    [] x.json = "string" -> Raise("ValueError")
    [] x.json = "null" -> Raise("TypeError")

\* a normalization that passes the backend's number on as it is
clamp_omitted(x) == x.value

\* max(0.0, min(1.0, x)): min keeps 1.0 unless x < 1.0 and max keeps 0.0
\* unless the result > 0.0, and every comparison with NaN is false
clamp(x) ==
  IF x.json = "nan" THEN 100 ELSE Max(0, Min(100, x.value))

\* the ten keys of an adapter's result
ResultFields ==
  {"is_fraud", "fraud_score", "risk_level", "fraud_type", "reasoning",
   "username", "content", "language", "red_flags", "matched_keywords"}

(***************************************************************************)
(* GPTHTMLFraudDetector                                                    *)
(***************************************************************************)
\* GPTHTMLFraudDetector._fallback_analysis
GPTHTML_fallback_analysis ==
  [is_fraud |-> FALSE, fraud_score |-> 0, risk_level |-> "LOW",
   fraud_type |-> "analysis_failed",
   reasoning |-> "HTML analysis failed, treating as non-fraud for safety",
   username |-> None, content |-> "", language |-> "unknown",
   red_flags |-> <<>>, matched_keywords |-> <<>>]

\* the risk level of a normalized result: the level the backend sent when it
\* is one of the three names, the level derived from the score otherwise
validated_risk_level(risk_level, fraud_score) ==
  IF risk_level \notin {"HIGH", "MEDIUM", "LOW"}
    THEN IF fraud_score >= 70 THEN "HIGH"
         ELSE IF fraud_score >= 40 THEN "MEDIUM"
         ELSE "LOW"
    ELSE risk_level

\* GPTHTMLFraudDetector._normalize_analysis: the normalized result, or the
\* exception float() raised
GPTHTML_normalize_analysis(analysis) ==
  LET score == float(get(analysis, "fraud_score", Number(0)))
  IN  IF IsException(score) THEN score
      ELSE [is_fraud |-> get(analysis, "is_fraud", FALSE),
            fraud_score |-> clamp(score),
            risk_level |-> validated_risk_level(get(analysis, "risk_level", "LOW"),
                                                clamp(score)),
            fraud_type |-> get(analysis, "fraud_type", "suspicious_content"),
            reasoning |-> get(analysis, "reasoning", "No analysis provided"),
            username |-> get_or_none(analysis, "username"),
            content |-> get(analysis, "content", ""),
            language |-> get(analysis, "language", "unknown"),
            red_flags |-> get(analysis, "red_flags", <<>>),
            matched_keywords |-> get(analysis, "matched_keywords", <<>>)]

(***************************************************************************)
(* Markup.  A post element's HTML is a sequence of segments, each a tag    *)
(* and the text inside it; plain text is one segment with the tag "text".  *)
(***************************************************************************)
\* str.strip()
Strip(s) ==
  IF IsBlank(s) THEN ""
  ELSE LET lo == CHOOSE i \in 1..Len(s) :
                   ~IsSpace(CharAt(s, i)) /\ \A j \in 1..(i - 1) : IsSpace(CharAt(s, j))
           hi == CHOOSE i \in 1..Len(s) :
                   ~IsSpace(CharAt(s, i)) /\ \A j \in (i + 1)..Len(s) : IsSpace(CharAt(s, j))
       IN  SubSeq(s, lo, hi)

\* the markup of one segment as the browser's inner_html() gives it
Render(seg) ==
  CASE seg.tag = "text" -> seg.body
    [] seg.tag = "comment" -> "<!--" \o seg.body \o "-->"
    [] OTHER -> "<" \o seg.tag \o ">" \o seg.body \o "</" \o seg.tag \o ">"

\* the markup of a sequence of segments
RenderAll(html) ==
  LET out[i \in 0..Len(html)] == IF i = 0 THEN "" ELSE out[i - 1] \o Render(html[i])
  IN  out[Len(html)]

\* GPTHTMLFraudDetector._clean_html: script elements, style elements and
\* comments removed, the rest cut to max_length, then stripped
_clean_html(html) ==
  LET kept == SelectSeq(html, LAMBDA seg : seg.tag \notin {"script", "style", "comment"})
      markup == RenderAll(kept)
      max_length == 15000
      cut == IF Len(markup) > max_length
               THEN SubSeq(markup, 1, max_length) \o "\n... [truncated]"
               ELSE markup
  IN  Strip(cut)

\* the exception raised inside `try` reaches the `except` clauses of
\* analyze_post_html (lines 114-121): the JSONDecodeError clause logs
\* result_text[:200], which is unbound when the client call itself raised the
\* JSONDecodeError, and the exception raised by a clause leaves the method
GPTHTML_except(exc, result_text_bound) ==
  IF exc = "JSONDecodeError"
    THEN IF result_text_bound THEN GPTHTML_fallback_analysis
         ELSE Raise("UnboundLocalError")
    ELSE GPTHTML_fallback_analysis

\* the body of the `try` of analyze_post_html (lines 60-112): its return
\* value, or the exception raised in it
GPTHTML_try(html, backend) ==
  IF backend.kind = "import_error" THEN GPTHTML_fallback_analysis
  ELSE IF Len(_clean_html(html)) < 50 THEN GPTHTML_fallback_analysis
  ELSE CASE backend.kind = "connection_error" -> Raise("APIConnectionError")
         [] backend.kind = "timeout" -> Raise("APITimeoutError")
         [] backend.kind = "status" -> Raise("APIStatusError")
         [] backend.kind = "client_json_error" -> Raise("JSONDecodeError")
         [] backend.kind = "no_content" -> Raise("TypeError")
         [] backend.kind = "invalid_json" -> Raise("JSONDecodeError")
         [] backend.kind = "not_object" -> Raise("AttributeError")
         [] backend.kind = "ok" -> GPTHTML_normalize_analysis(backend.analysis)

\* result_text is assigned (line 101) once the client call has returned
result_text_bound(backend) ==
  backend.kind \in {"no_content", "invalid_json", "not_object", "ok"}

\* GPTHTMLFraudDetector.analyze_post_html: the returned result, or the
\* exception that leaves the method
analyze_post_html(self, html, backend) ==
  IF ~self.api_key THEN GPTHTML_fallback_analysis
  ELSE LET r == GPTHTML_try(html, backend)
       IN  IF IsException(r)
             THEN GPTHTML_except(r.exception, result_text_bound(backend))
             ELSE r

(***************************************************************************)
(* GPTVisionFraudDetector                                                  *)
(***************************************************************************)
\* GPTVisionFraudDetector._fallback_analysis
GPTVision_fallback_analysis ==
  [is_fraud |-> FALSE, fraud_score |-> 0, risk_level |-> "LOW",
   fraud_type |-> "analysis_failed",
   reasoning |-> "Vision analysis failed, treating as non-fraud for safety",
   username |-> None, content |-> "", language |-> "unknown",
   red_flags |-> <<>>, matched_keywords |-> <<>>]

\* GPTVisionFraudDetector._normalize_analysis
GPTVision_normalize_analysis(analysis) ==
  LET score == float(get(analysis, "fraud_score", Number(0)))
  IN  IF IsException(score) THEN score
      ELSE [is_fraud |-> get(analysis, "is_fraud", FALSE),
            fraud_score |-> clamp(score),
            risk_level |-> validated_risk_level(get(analysis, "risk_level", "LOW"),
                                                clamp(score)),
            fraud_type |-> get(analysis, "fraud_type", "suspicious_content"),
            reasoning |-> get(analysis, "reasoning", "No analysis provided"),
            username |-> get_or_none(analysis, "username"),
            content |-> get(analysis, "content", ""),
            language |-> get(analysis, "language", "unknown"),
            red_flags |-> get(analysis, "red_flags", <<>>),
            matched_keywords |-> get(analysis, "matched_keywords", <<>>)]

\* the `except` clauses of GPTVisionFraudDetector.analyze_screenshot (lines
\* 119-129); the JSONDecodeError clause reads result_text as the HTML
\* adapter's does
GPTVision_except(exc, text_bound) ==
  IF exc = "JSONDecodeError"
    THEN IF text_bound THEN GPTVision_fallback_analysis
         ELSE Raise("UnboundLocalError")
    ELSE GPTVision_fallback_analysis

\* the body of the `try` of GPTVisionFraudDetector.analyze_screenshot (lines
\* 60-117)
GPTVision_try(image, backend) ==
  IF backend.kind = "import_error" THEN GPTVision_fallback_analysis
  ELSE IF ~image.exists THEN Raise("FileNotFoundError")
  ELSE CASE backend.kind = "connection_error" -> Raise("APIConnectionError")
         [] backend.kind = "timeout" -> Raise("APITimeoutError")
         [] backend.kind = "status" -> Raise("APIStatusError")
         [] backend.kind = "client_json_error" -> Raise("JSONDecodeError")
         [] backend.kind = "no_content" -> Raise("TypeError")
         [] backend.kind = "invalid_json" -> Raise("JSONDecodeError")
         [] backend.kind = "not_object" -> Raise("AttributeError")
         [] backend.kind = "ok" -> GPTVision_normalize_analysis(backend.analysis)

\* GPTVisionFraudDetector.analyze_screenshot
GPTVision_analyze_screenshot(self, image, backend) ==
  IF ~self.api_key THEN GPTVision_fallback_analysis
  ELSE LET r == GPTVision_try(image, backend)
       IN  IF IsException(r)
             THEN GPTVision_except(r.exception,
                                   image.exists /\ result_text_bound(backend))
             ELSE r

(***************************************************************************)
(* VisionFraudDetector (Llama 3.2 Vision behind Ollama)                    *)
(***************************************************************************)
\* VisionFraudDetector._fallback_analysis
Vision_fallback_analysis ==
  [is_fraud |-> FALSE, fraud_score |-> 0, risk_level |-> "LOW",
   fraud_type |-> "analysis_failed",
   reasoning |-> "Vision analysis failed, treating as non-fraud for safety",
   username |-> None, content |-> "", language |-> "unknown",
   red_flags |-> <<>>, matched_keywords |-> <<>>]

\* VisionFraudDetector._normalize_analysis
Vision_normalize_analysis(analysis) ==
  LET score == float(get(analysis, "fraud_score", Number(0)))
  IN  IF IsException(score) THEN score
      ELSE [is_fraud |-> get(analysis, "is_fraud", FALSE),
            fraud_score |-> clamp(score),
            risk_level |-> validated_risk_level(get(analysis, "risk_level", "LOW"),
                                                clamp(score)),
            fraud_type |-> get(analysis, "fraud_type", "suspicious_content"),
            reasoning |-> get(analysis, "reasoning", "No analysis provided"),
            username |-> get_or_none(analysis, "username"),
            content |-> get(analysis, "content", ""),
            language |-> get(analysis, "language", "unknown"),
            red_flags |-> get(analysis, "red_flags", <<>>),
            matched_keywords |-> get(analysis, "matched_keywords", <<>>)]

\* the body of the `try` of VisionFraudDetector.analyze_screenshot (lines
\* 48-88): the file is read, the request posted, the status tested, the
\* body parsed, and the model's output parsed inside the inner `try`, whose
\* only clause turns a JSONDecodeError into the fallback
Vision_try(image, backend) ==
  IF ~image.exists THEN Raise("FileNotFoundError")
  ELSE CASE backend.kind = "connection_error" -> Raise("ConnectionError")
         [] backend.kind = "timeout" -> Raise("Timeout")
         [] backend.kind = "status" -> Vision_fallback_analysis
         [] backend.kind = "client_json_error" -> Raise("JSONDecodeError")
         [] backend.kind = "no_content" -> Vision_fallback_analysis
         [] backend.kind = "invalid_json" -> Vision_fallback_analysis
         [] backend.kind = "not_object" -> Raise("AttributeError")
         [] backend.kind = "ok" -> Vision_normalize_analysis(backend.analysis)

\* VisionFraudDetector.analyze_screenshot: every clause of the outer `try`
\* (lines 90-100) returns the fallback and reads no local of the body
Vision_analyze_screenshot(self, image, backend) ==
  LET r == Vision_try(image, backend)
  IN  IF IsException(r) THEN Vision_fallback_analysis ELSE r

(***************************************************************************)
(* Inputs                                                                  *)
(***************************************************************************)
\* the union of two JSON objects; a key of both takes the second's value
Merge(r, s) ==
  [k \in DOMAIN r \cup DOMAIN s |-> IF k \in DOMAIN s THEN s[k] ELSE r[k]]

\* the empty JSON object
EmptyObject == <<>>

ShortContent == "Call 9876543210"
LongContent == "URGENT! Luxury beach resort in Goa, 70% OFF, send advance payment via UPI"

\* scores a backend may send: absent, below 0, at and around each threshold,
\* above 1, NaN, a numeric string, free text, null
ScoreChoices ==
  {EmptyObject} \cup
  {[fraud_score |-> v] :
     v \in {Number(-20), Number(0), Number(39), Number(40), Number(49), Number(50),
            Number(69), Number(70), Number(100), Number(150),
            NaN, NumericString(90), TextString, Null}}

\* risk levels a backend may send: absent, the three names, another name, null
RiskChoices ==
  {EmptyObject} \cup
  {[risk_level |-> l] : l \in {"HIGH", "MEDIUM", "LOW", "CRITICAL", None}}

\* extracted content a backend may send: absent, empty, short, long, null
ContentChoices ==
  {EmptyObject} \cup {[content |-> c] : c \in {"", ShortContent, LongContent, None}}

\* the remaining keys: all absent, or all present
OtherChoices ==
  {EmptyObject,
   [is_fraud |-> TRUE, fraud_type |-> "hotel_booking_scam",
    reasoning |-> "Asks for an advance payment", username |-> "Goa Beach Resort",
    language |-> "eng", red_flags |-> <<"phone number">>,
    matched_keywords |-> <<"advance payment">>]}

\* the JSON objects a backend may answer with
Analyses ==
  {Merge(Merge(Merge(o, c), r), s) :
     o \in OtherChoices, c \in ContentChoices, r \in RiskChoices, s \in ScoreChoices}

\* what the client library and the backend do during one call
FailureKinds ==
  {"import_error", "connection_error", "timeout", "status", "client_json_error",
   "no_content", "invalid_json", "not_object"}

Backends ==
  {[kind |-> k, analysis |-> EmptyObject] : k \in FailureKinds} \cup
  {[kind |-> "ok", analysis |-> a] : a \in Analyses}

\* post markup handed to analyze_post_html, and screenshots handed to
\* analyze_screenshot
LongHtml == << [tag |-> "text", body |-> LongContent] >>
ShortHtml ==
  << [tag |-> "script", body |-> LongContent], [tag |-> "text", body |-> " Goa trip "] >>
Image == [exists |-> TRUE]
MissingImage == [exists |-> FALSE]

\* one call of one adapter: the adapter, its construction-time state, the
\* argument and the backend's behaviour
AdapterCalls ==
  {[kind |-> "adapter", classifier |-> "GPTHTMLFraudDetector",
    self |-> [api_key |-> key], input |-> LongHtml, backend |-> b] :
     key \in BOOLEAN, b \in Backends} \cup
  {[kind |-> "adapter", classifier |-> "GPTHTMLFraudDetector",
    self |-> [api_key |-> TRUE], input |-> ShortHtml, backend |-> b] :
     b \in Backends} \cup
  {[kind |-> "adapter", classifier |-> "GPTVisionFraudDetector",
    self |-> [api_key |-> key], input |-> img, backend |-> b] :
     key \in BOOLEAN, img \in {Image, MissingImage}, b \in Backends} \cup
  {[kind |-> "adapter", classifier |-> "VisionFraudDetector",
    self |-> [model |-> "llama3.2-vision"], input |-> img, backend |-> b] :
     img \in {Image, MissingImage},
     b \in {x \in Backends : x.kind # "import_error"}}

\* the texts scored between two scorings of the given text
OtherTexts == {"Fresh coconuts for sale. ", "URGENT! 70% OFF! ", "upi 9876543210"}

\* the FraudDetector instances of a scoring session
Instances == {1, 2}

\* Keyword lists handed to _classify_fraud_type.  analyze_text hands over the
\* keywords found in the text in the order of fraud_keywords; the lists here
\* are the sublists of at most MaxMatched members of fraud_keywords taken from
\* ClassifiedKeywords: keywords of each category, keywords that hold the
\* trigger of another category than the one they are listed under ("booking
\* amount", "earn by playing", "female companion"), and keywords that hold no
\* trigger.
MaxMatched == 2

ClassifiedKeywords ==
  {"advance payment", "upi", "booking amount", "discounted stay", "hurry",
   "guaranteed returns", "earn lakhs", "telegram", "_b^,_k^;^~_g", "bet", "casino",
   "earn by playing", "female companion", "vip service", "pan card", "bitcoin"}

KeywordLists ==
  LET positions == {i \in 1..Len(_load_fraud_keywords) :
                      _load_fraud_keywords[i] \in ClassifiedKeywords}
      chosen == {P \in SUBSET positions : Cardinality(P) <= MaxMatched}
      ordered(P) == SelectSeq([i \in 1..Len(_load_fraud_keywords) |-> i],
                              LAMBDA i : i \in P)
  IN  {[j \in 1..Cardinality(P) |-> _load_fraud_keywords[ordered(P)[j]]] : P \in chosen}

(***************************************************************************)
(* The feed's source.  extract_post_data yields a post with content, a     *)
(* post without content, or nothing the scraper keeps.                     *)
(***************************************************************************)
FeedContents == {" ", "betting games ", "upi 9876543210"}

RawPosts ==
  {[author_name |-> "Goa Deals", content |-> c] : c \in FeedContents \cup {""}}

\* the sequences of at most n elements of S
SeqsUpTo(S, n) ==
  LET seqs[k \in 0..n] ==
        IF k = 0 THEN {<<>>}
        ELSE seqs[k - 1] \cup {Append(q, x) : q \in seqs[k - 1], x \in S}
  IN  seqs[n]

\* batch_size of the FacebookFeedScraper and the largest num_batches of a run
BatchSize == 2
MaxBatches == 2

(***************************************************************************)
(* State                                                                   *)
(***************************************************************************)
VARIABLES
  given,             \* what this behaviour exercises: a text to score, one
                     \* adapter call, a feed run or a search run
  detectors,         \* the state of each FraudDetector instance
  call,              \* the last direct call of a classifier and its outcome
  first_result,      \* the first scoring of the given text: the instance, the
                     \* result, and whether another text was scored since
  feed,              \* the FacebookFeedScraper and its scrape_feed run
  search,            \* the FacebookSearchScraper and its search_and_scrape run
  ai_scraped_posts,  \* the rows of table ai_scraped_posts (post store)
  ai_fraud_alerts,   \* the rows of table ai_fraud_alerts (alert store)
  classified,        \* the last post a run classified and what became of it:
                     \* the classifiers called, the sink methods called,
                     \* which of them failed to write, and what each gave
                     \* back to its caller (an id, None, or an exception)
  handled            \* the last post a run took up for classification: its
                     \* text, the number of classification results produced
                     \* for it, and the posts of its batch the loop never reached

vars ==
  <<given, detectors, call, first_result, feed, search,
    ai_scraped_posts, ai_fraud_alerts, classified, handled>>

NoCall == [classifier |-> "none"]
NotClassified == [scraper |-> "none"]
NotHandled == [scraper |-> "none"]

\* FacebookFeedScraper.__init__, before scrape_feed is called
FeedInit ==
  [pc |-> "idle", batch_size |-> BatchSize, num_batches |-> 0, batch_num |-> 0,
   batch_posts |-> <<>>, idx |-> 0, fraud_posts |-> <<>>, all_fraud_posts |-> <<>>,
   total_scraped |-> 0, total_fraud_detected |-> 0, returned |-> <<>>,
   batches |-> <<>>]

\* FacebookSearchScraper.__init__, before search_and_scrape is called
SearchInit ==
  [pc |-> "idle", test_mode |-> FALSE, html_detector |-> [api_key |-> FALSE],
   keywords |-> <<>>, keyword_idx |-> 0, max_posts |-> 0, idx |-> 0,
   posts |-> <<>>, screenshot_count |-> 0, fraud_count |-> 0,
   all_posts |-> <<>>, returned |-> <<>>]

\* a behaviour exercises the scoring of a text, one adapter call, the
\* classification of a list of matched keywords, a feed run,
\* a search run, a feed run and a search run executing at the same time on the
\* same database, or requests to the threats API beside a search run
Scenarios ==
  {[kind |-> "text", text |-> t] : t \in Texts} \cup AdapterCalls \cup
  {[kind |-> "classify", keywords |-> keywords] : keywords \in KeywordLists} \cup
  {[kind |-> "feed"], [kind |-> "search"], [kind |-> "concurrent"],
   [kind |-> "threats"]}

Init ==
  /\ given \in Scenarios
  /\ detectors = [d \in Instances |-> FraudDetector]
  /\ call = NoCall
  /\ first_result = <<>>
  /\ feed = FeedInit
  /\ search = SearchInit
  /\ ai_scraped_posts = <<>>
  /\ ai_fraud_alerts = <<>>
  /\ classified = NotClassified
  /\ handled = NotHandled

(***************************************************************************)
(* The inputs of the runs.  A run executing beside another run or beside   *)
(* requests to the API is given shorter inputs than a run executing alone: *)
(* one kind of post in the feed, one keyword and one post element that is  *)
(* classified in the search.                                               *)
(***************************************************************************)
\* the largest num_batches of a feed run that executes beside a search run
ConcurrentBatches == 1

\* num_batches of a call of scrape_feed
FeedRunLengths ==
  IF given.kind = "concurrent" THEN 1..ConcurrentBatches ELSE 0..MaxBatches

\* what extract_post_data would yield for each of the post elements on the
\* page: at most batch_size elements, or one element more than a batch takes
FeedPages ==
  LET posts == IF given.kind = "concurrent"
                 THEN {post \in RawPosts : post.content = "upi 9876543210"}
                 ELSE RawPosts
      surplus == [author_name |-> "Goa Deals", content |-> "upi 9876543210"]
      pages == SeqsUpTo(posts, feed.batch_size)
  IN  pages \cup {Append(page, surplus) : page \in {q \in pages : Len(q) = feed.batch_size}}

(***************************************************************************)
(* Direct calls of the classifiers                                         *)
(***************************************************************************)
\* detector d scores text t
Score(d, t) ==
  /\ call' = [classifier |-> "FraudDetector", instance |-> d, text |-> t,
              output |-> Analyze(detectors[d], t)]
  /\ detectors' = [detectors EXCEPT ![d] = analyze_text_self(@, t)]

\* await detector.analyze_text(text) for the given text
AnalyzeText ==
  /\ given.kind = "text"
  /\ \E d \in Instances :
       /\ Score(d, given.text)
       /\ first_result' =
            IF first_result = <<>>
              THEN << [instance |-> d, output |-> Analyze(detectors[d], given.text),
                       others |-> FALSE] >>
              ELSE first_result
  /\ UNCHANGED <<given, feed, search, ai_scraped_posts, ai_fraud_alerts, classified, handled>>

\* await detector.analyze_text(text) for another text
AnalyzeOtherText ==
  /\ given.kind = "text"
  /\ \E d \in Instances, t \in OtherTexts : Score(d, t)
  /\ first_result' = IF first_result = <<>> THEN first_result
                     ELSE << [first_result[1] EXCEPT !.others = TRUE] >>
  /\ UNCHANGED <<given, feed, search, ai_scraped_posts,
                 ai_fraud_alerts, classified, handled>>

\* self._classify_fraud_type(matched_keywords, text_lower) on the keyword list
\* of the scenario; the method does not read its second argument
ClassifyKeywords ==
  /\ given.kind = "classify"
  /\ call' = [classifier |-> "_classify_fraud_type", keywords |-> given.keywords,
              fraud_type |-> _classify_fraud_type(given.keywords, "")]
  /\ UNCHANGED <<given, detectors, first_result, feed, search, ai_scraped_posts,
                 ai_fraud_alerts, classified, handled>>

\* the adapter call of the scenario
AdapterResult(g) ==
  CASE g.classifier = "GPTHTMLFraudDetector" ->
         analyze_post_html(g.self, g.input, g.backend)
    [] g.classifier = "GPTVisionFraudDetector" ->
         GPTVision_analyze_screenshot(g.self, g.input, g.backend)
    [] g.classifier = "VisionFraudDetector" ->
         Vision_analyze_screenshot(g.self, g.input, g.backend)

\* await detector.analyze_post_html(html) / detector.analyze_screenshot(path)
AnalyzeWithAdapter ==
  /\ given.kind = "adapter"
  /\ call' = [classifier |-> given.classifier, output |-> AdapterResult(given)]
  /\ UNCHANGED <<given, detectors, first_result, feed, search, ai_scraped_posts,
                 ai_fraud_alerts, classified, handled>>

(***************************************************************************)
(* FacebookFeedScraper                                                     *)
(***************************************************************************)
\* what the database does during one insert
DbOutcomes == {"ok", "execute_error", "commit_error", "connect_error"}

\* the row _store_fraud_post inserts into ai_scraped_posts
feed_row(post, ai_result, id) ==
  [id |-> id, platform |-> "facebook", group_id |-> "feed",
   author_name |-> post.author_name, content |-> post.content,
   is_fraudulent |-> TRUE, fraud_confidence |-> ai_result.fraud_score,
   ai_analysis_result |-> ai_result, fraud_reasons |-> ai_result.matched_keywords]

\* a store that keeps one aggregate row per table and rewrites it on every
\* call, in place of the INSERT of a row of its own
_store_fraud_post_rewriting(post, ai_result, db, table) ==
  IF db = "ok"
    THEN [table |-> IF table = <<>> THEN << feed_row(post, ai_result, 1) >>
                    ELSE [table EXCEPT ![Len(table)] =
                            feed_row(post, ai_result, Len(table))],
          value |-> [id |-> Max(Len(table), 1)]]
    ELSE [table |-> table, value |-> [id |-> 0]]

\* FacebookFeedScraper._store_fraud_post: the table after the call, and the
\* returned id (0 for None) or the exception that leaves the method.  When
\* next(get_db()) raises, `db` is unbound in the except clause, so
\* db.rollback() raises UnboundLocalError out of the method.
_store_fraud_post(post, ai_result, db, table) ==
  CASE db = "ok" ->
         [table |-> Append(table, feed_row(post, ai_result, Len(table) + 1)),
          value |-> [id |-> Len(table) + 1]]
    [] db \in {"execute_error", "commit_error"} ->
         [table |-> table, value |-> [id |-> 0]]
    [] db = "connect_error" ->
         [table |-> table, value |-> Raise("UnboundLocalError")]

\* a gate that opens at the MEDIUM boundary, and a gate that is always open
is_fraud_score_from_medium(fraud_score) == fraud_score >= 40
is_fraud_score_always(fraud_score) == TRUE

\* the test of line 226
is_fraud_score(fraud_score) == fraud_score >= 50

\* scrape_feed, lines 47-62: the browser is started and the account logged in
scrape_feed ==
  /\ given.kind \in {"feed", "concurrent"}
  /\ feed.pc = "idle"
  /\ \E n \in FeedRunLengths, login \in {"ok", "login_failed", "start_error"} :
       feed' =
         CASE login = "ok" ->
                [feed EXCEPT !.pc = "scrape", !.num_batches = n]
           [] login = "login_failed" ->
                [feed EXCEPT !.pc = "returned", !.num_batches = n,
                             !.returned = << [error |-> "Login failed"] >>]
           [] login = "start_error" ->
                [feed EXCEPT !.pc = "returned", !.num_batches = n,
                             !.returned = << [error |-> "Browser closed"] >>]
  /\ UNCHANGED <<given, detectors, call, first_result, search, ai_scraped_posts,
                 ai_fraud_alerts, classified, handled>>

\* a batch that takes every post element on the page
_scrape_batch_posts_unsliced(extracted, batch_size) ==
  SelectSeq(extracted, LAMBDA post_data : post_data.content # "")

\* _scrape_batch, lines 161-189: of the posts extracted from the first
\* batch_size elements (post_elements[: self.batch_size]), those with
\* content; an exception while the page is read is logged and leaves the list
\* empty
_scrape_batch_posts(extracted, batch_size) ==
  SelectSeq(SubSeq(extracted, 1, Min(Len(extracted), batch_size)),
            LAMBDA post_data : post_data.content # "")

\* one pass of the loop of scrape_feed up to the call of
\* _process_batch_with_ai (lines 64-82): a batch is scraped; an empty batch is
\* skipped and the loop goes on with the next batch number.  An exception
\* raised while the page is read (lines 126-139) is caught at line 186, before
\* any post was extracted, and _scrape_batch returns the empty list.
\* feed.batches records each call of _scrape_batch: whether it caught an
\* exception, and the number of posts it returned.
_scrape_batch ==
  /\ feed.pc = "scrape"
  /\ feed.batch_num < feed.num_batches
  /\ \E page \in {"ok", "error"} :
       \E extracted \in (IF page = "ok" THEN FeedPages ELSE {<<>>}) :
         LET posts_data == _scrape_batch_posts(extracted, feed.batch_size)
             scraped == [feed EXCEPT !.batches =
                           Append(@, [error |-> page = "error",
                                      posts |-> Len(posts_data)])]
         IN  feed' =
               IF posts_data = <<>>
                 THEN [scraped EXCEPT !.batch_num = @ + 1]
                 ELSE [scraped EXCEPT !.pc = "process", !.batch_posts = posts_data,
                                      !.idx = 1, !.fraud_posts = <<>>,
                                      !.total_scraped = @ + Len(posts_data)]
  /\ UNCHANGED <<given, detectors, call, first_result, search, ai_scraped_posts,
                 ai_fraud_alerts, classified, handled>>

\* one pass of the loop of _process_batch_with_ai (lines 204-242) on the post
\* at feed.idx.  An exception of _store_fraud_post reaches the except clause
\* of line 244, which ends the loop.
_process_batch_with_ai ==
  /\ feed.pc = "process"
  /\ feed.idx <= Len(feed.batch_posts)
  /\ LET post == feed.batch_posts[feed.idx]
         content == post.content
         ai_result == Analyze(FraudDetector, content)
         took(results, left) ==
           [scraper |-> "feed", content |-> content, results |-> results,
            left |-> left]
     IN  IF content = ""
           THEN /\ feed' = [feed EXCEPT !.idx = @ + 1]
                /\ handled' = took(0, 0)
                /\ UNCHANGED <<ai_scraped_posts, classified>>
         ELSE IF is_fraud_score(ai_result.fraud_score)
           THEN \E db \in DbOutcomes :
             LET stored == _store_fraud_post(post, ai_result, db, ai_scraped_posts)
             IN   /\ ai_scraped_posts' = stored.table
                  /\ classified' =
                       [scraper |-> "feed", input |-> content, content |-> content,
                        result |-> ai_result,
                        calls |-> <<"FraudDetector">>, accepted |-> TRUE,
                        sink |-> <<"_store_fraud_post">>,
                        failed |-> << db # "ok" >>,
                        surfaced |->
                          << IF IsException(stored.value) THEN "exception"
                             ELSE IF stored.value.id = 0 THEN "None" ELSE "id" >>]
                  /\ handled' =
                       took(1, IF IsException(stored.value)
                                 THEN Len(feed.batch_posts) - feed.idx ELSE 0)
                  /\ feed' =
                       IF IsException(stored.value)
                         THEN [feed EXCEPT !.idx = Len(feed.batch_posts) + 1]
                       ELSE IF stored.value.id # 0
                         THEN [feed EXCEPT
                                 !.idx = @ + 1,
                                 !.fraud_posts =
                                   Append(@, [author_name |-> post.author_name,
                                              content |-> content,
                                              fraud_post_id |-> stored.value.id,
                                              ai_analysis |-> ai_result])]
                       ELSE [feed EXCEPT !.idx = @ + 1]
           ELSE /\ feed' = [feed EXCEPT !.idx = @ + 1]
                /\ classified' =
                     [scraper |-> "feed", input |-> content, content |-> content,
                        result |-> ai_result,
                      calls |-> <<"FraudDetector">>, accepted |-> FALSE,
                      sink |-> <<>>, failed |-> <<>>, surfaced |-> <<>>]
                /\ handled' = took(1, 0)
                /\ UNCHANGED ai_scraped_posts
  /\ UNCHANGED <<given, detectors, call, first_result, search, ai_fraud_alerts>>

\* a counter that is assigned the batch's number of fraud posts, in place of
\* being increased by it
total_fraud_detected_assigned(total_fraud_detected, fraud_posts) == Len(fraud_posts)

\* scrape_feed, line 89: self.total_fraud_detected += len(fraud_posts)
total_fraud_detected_increased(total_fraud_detected, fraud_posts) ==
  total_fraud_detected + Len(fraud_posts)

\* scrape_feed, lines 84-95: the batch's fraud posts are added to the run's
\* and counted, and the page is scrolled for the next batch; an exception of
\* the scroll reaches the except clause of line 114
scrape_feed_extend ==
  /\ feed.pc = "process"
  /\ feed.idx > Len(feed.batch_posts)
  /\ \E scroll \in {"ok", "error"} :
       LET counted ==
             [feed EXCEPT !.all_fraud_posts = @ \o feed.fraud_posts,
                          !.total_fraud_detected =
                            total_fraud_detected_increased(@, feed.fraud_posts),
                          !.batch_posts = <<>>, !.fraud_posts = <<>>, !.idx = 0]
       IN  feed' =
             IF scroll = "error" /\ feed.batch_num < feed.num_batches - 1
               THEN [counted EXCEPT !.pc = "returned",
                                    !.returned = << [error |-> "Timeout 30000ms exceeded"] >>]
               ELSE [counted EXCEPT !.pc = "scrape", !.batch_num = @ + 1]
  /\ UNCHANGED <<given, detectors, call, first_result, search, ai_scraped_posts,
                 ai_fraud_alerts, classified, handled>>

\* scrape_feed, lines 97-112: the loop is over and the totals are returned
scrape_feed_return ==
  /\ feed.pc = "scrape"
  /\ feed.batch_num = feed.num_batches
  /\ feed' =
       [feed EXCEPT !.pc = "returned",
                    !.returned = << [total_scraped |-> feed.total_scraped,
                                     total_fraud_detected |-> feed.total_fraud_detected,
                                     fraud_posts |-> feed.all_fraud_posts] >>]
  /\ UNCHANGED <<given, detectors, call, first_result, search, ai_scraped_posts,
                 ai_fraud_alerts, classified, handled>>

\* The task running scrape_feed is cancelled (the background task of
\* _run_facebook_feed_scraper, at shutdown of the server).  scrape_feed reads
\* no stop flag; cancellation is the one way to stop a run from outside.
\* asyncio raises CancelledError at the await the task is suspended at, here
\* one of lines 70, 82 and 94 or, inside a batch, lines 215 and 242; the
\* clauses `except Exception` of lines 114, 186 and 244 do not catch it, so
\* the run ends there and returns nothing.
CancelledError ==
  /\ feed.pc \in {"scrape", "process"}
  /\ feed' = [feed EXCEPT !.pc = "cancelled"]
  /\ UNCHANGED <<given, detectors, call, first_result, search, ai_scraped_posts,
                 ai_fraud_alerts, classified, handled>>

(***************************************************************************)
(* FacebookSearchScraper                                                   *)
(***************************************************************************)
\* re.sub(r'\s+', ' ', text): each run of whitespace becomes one space
CollapseSpaces(s) ==
  Concat(LAMBDA i : IF ~IsSpace(CharAt(s, i)) THEN CharAt(s, i)
                    ELSE IF i > 1 /\ IsSpace(CharAt(s, i - 1)) THEN ""
                    ELSE " ",
         Len(s))

\* FacebookSearchScraper._extract_text_from_html: the text of the segments
\* that are not script, style or svg elements (comments are no text), each
\* stripped and the non-empty ones joined by a space, whitespace collapsed
_extract_text_from_html(html) ==
  LET kept == SelectSeq(html, LAMBDA seg :
                 /\ seg.tag \notin {"script", "style", "svg", "comment"}
                 /\ Strip(seg.body) # "")
      texts == [i \in 1..Len(kept) |-> Strip(kept[i].body)]
  IN  Strip(CollapseSpaces(Join(" ", texts)))

\* FacebookSearchScraper._is_sponsored_post
_is_sponsored_post(post_element) ==
  LET html == RenderAll(post_element.html)
  IN  \/ Contains(html, "Sponsored") \/ Contains(html, "sponsored")
      \/ \E indicator \in {"data-ad-rendering-role", "data-ad-comet-preview",
                           "attributionsrc", "ad_id"} : Contains(html, indicator)
      \/ Contains(Lower(post_element.class), "ad")

\* the elements a results page may hold: an advertisement, a placeholder with
\* hardly any markup, a post whose markup is mostly script, and a post
PostElements ==
  { [class |-> "x1yztbdb",
     html |-> << [tag |-> "span", body |-> "Sponsored"],
                 [tag |-> "div", body |-> LongContent] >>],
    [class |-> "x1yztbdb", html |-> << [tag |-> "div", body |-> "Goa"] >>],
    [class |-> "x1yztbdb",
     html |-> << [tag |-> "script", body |-> LongContent \o LongContent],
                 [tag |-> "div", body |-> "Goa trip"] >>],
    [class |-> "x1yztbdb",
     html |-> << [tag |-> "div", body |-> LongContent],
                 [tag |-> "span", body |-> "Contact 9876543210 today"] >>] }

\* what the scraper reads from each element, computed once
ElementTable ==
  [e \in PostElements |->
     [is_sponsored |-> _is_sponsored_post(e),
      html_length |-> Len(RenderAll(e.html)),
      clean_text |-> _extract_text_from_html(e.html)]]

\* the answers of the GPT backend during a search run
SearchAnalysis(score, level, content) ==
  Merge([is_fraud |-> score >= 50, fraud_type |-> "hotel_booking_scam",
         reasoning |-> "Asks for an advance payment", username |-> "Goa Beach Resort",
         language |-> "eng", red_flags |-> <<"phone number">>,
         matched_keywords |-> <<"advance payment">>,
         fraud_score |-> Number(score), risk_level |-> level],
        content)

SearchBackends ==
  {[kind |-> k, analysis |-> EmptyObject] : k \in {"timeout", "client_json_error"}} \cup
  {[kind |-> "ok", analysis |-> a] :
     a \in {SearchAnalysis(50, "MEDIUM", [content |-> LongContent]),
            SearchAnalysis(49, "MEDIUM", [content |-> LongContent]),
            SearchAnalysis(90, "HIGH", [content |-> ShortContent]),
            SearchAnalysis(90, "HIGH", EmptyObject)}}

\* what html_detector.analyze_post_html returns for the clean text of each
\* element under each behaviour of the backend, computed once
FraudResultTable ==
  [e \in PostElements, b \in SearchBackends, key \in BOOLEAN |->
     analyze_post_html([api_key |-> key],
                       << [tag |-> "text", body |-> ElementTable[e].clean_text] >>, b)]

\* the search keywords of a run, the largest number of them, and the largest
\* number of posts a run may take (len(keywords) * posts_per_keyword)
KeywordPool == <<"cheap hotel goa", "advance payment upi", "guaranteed returns">>
MaxKeywords == 1
MaxPosts == 2

\* the row _store_post inserts into ai_scraped_posts
search_row(post_data, id) ==
  [id |-> id, platform |-> "facebook_search",
   group_id |-> "search_" \o post_data.keyword,
   author_name |-> post_data.username, content |-> post_data.content,
   is_fraudulent |-> post_data.fraud_score >= 50,
   fraud_confidence |-> post_data.fraud_score,
   ai_analysis_result |->
     [fraud_score |-> post_data.fraud_score, risk_level |-> post_data.risk_level,
      fraud_type |-> post_data.fraud_type,
      matched_keywords |-> post_data.matched_keywords,
      red_flags |-> post_data.red_flags, reasoning |-> post_data.reasoning,
      language |-> post_data.language, analysis_method |-> "html_ai"]]

\* FacebookSearchScraper._store_post: the table after the call; an exception
\* is logged and the method returns
_store_post(post_data, db, table) ==
  IF db = "ok" THEN Append(table, search_row(post_data, Len(table) + 1)) ELSE table

\* FacebookSearchScraper._create_fraud_alert: the table after the call
_create_fraud_alert(post_data, fraud_result, db, table) ==
  IF db = "ok"
    THEN Append(table,
           [id |-> Len(table) + 1, source_platform |-> "facebook_search",
            content_text |-> post_data.content,
            confidence_score |-> fraud_result.fraud_score,
            risk_level |-> fraud_result.risk_level,
            fraud_type |-> fraud_result.fraud_type,
            detected_keywords |-> fraud_result.matched_keywords,
            status |-> "open"])
    ELSE table

\* the test of line 368: no content, or fewer than 20 characters of it
insufficient_content(fraud_result) ==
  \/ fraud_result.content = None
  \/ fraud_result.content = ""
  \/ Len(fraud_result.content) < 20

\* the dictionary of lines 390-404
build_post_data(keyword, fraud_result) ==
  [keyword |-> keyword,
   screenshot_filename |->
     IF fraud_result.fraud_score >= 50 THEN "fb_search_" \o keyword \o ".png" ELSE None,
   username |-> fraud_result.username,
   content |-> fraud_result.content, language |-> fraud_result.language,
   fraud_score |-> fraud_result.fraud_score, risk_level |-> fraud_result.risk_level,
   fraud_type |-> fraud_result.fraud_type,
   matched_keywords |-> fraud_result.matched_keywords,
   red_flags |-> fraud_result.red_flags, reasoning |-> fraud_result.reasoning]

\* keywords, posts_per_keyword, the OPENAI_API_KEY and test_mode of a search run
SearchRuns ==
  IF given.kind \in {"concurrent", "threats"}
    THEN {[n |-> 1, posts_per_keyword |-> 1, key |-> TRUE, test_mode |-> FALSE]}
    ELSE {run \in [n : 0..MaxKeywords, posts_per_keyword : 1..MaxPosts,
                    key : BOOLEAN, test_mode : BOOLEAN] :
            run.n * run.posts_per_keyword <= MaxPosts}

\* the elements of a results page
SearchElements ==
  IF given.kind \in {"concurrent", "threats"}
    THEN {e \in PostElements :
            /\ ~ElementTable[e].is_sponsored
            /\ ElementTable[e].html_length >= 100
            /\ Len(ElementTable[e].clean_text) >= 50}
    ELSE PostElements

\* the behaviours of the GPT backend
SearchAnswers ==
  IF given.kind \in {"concurrent", "threats"}
    THEN {b \in SearchBackends :
            /\ b.kind = "ok"
            /\ "content" \in DOMAIN b.analysis
            /\ Len(b.analysis.content) >= 20}
    ELSE SearchBackends

\* search_and_scrape is called on a scraper constructed with or without the
\* OPENAI_API_KEY in the environment, in test mode or not (lines 35-75,
\* 175-177)
search_and_scrape ==
  /\ given.kind \in {"search", "concurrent", "threats"}
  /\ search.pc = "idle"
  /\ \E run \in SearchRuns :
       search' = [search EXCEPT !.pc = "search", !.test_mode = run.test_mode,
                                !.html_detector = [api_key |-> run.key],
                                !.keywords = SubSeq(KeywordPool, 1, run.n),
                                !.keyword_idx = 1,
                                !.max_posts = run.posts_per_keyword]
  /\ UNCHANGED <<given, detectors, call, first_result, feed, ai_scraped_posts,
                 ai_fraud_alerts, classified, handled>>

\* _search_keyword, lines 200-301: the keyword is typed into the search box
\* and the results are loaded.  Without a search box, or on an exception, the
\* method returns [] and search_and_scrape goes on with the next keyword.
_search_keyword_open ==
  /\ search.pc = "search"
  /\ search.keyword_idx <= Len(search.keywords)
  /\ \E page \in {"ok", "no_search_box", "error"} :
       search' =
         IF page = "ok"
           THEN [search EXCEPT !.pc = "elements", !.idx = 0, !.posts = <<>>,
                               !.screenshot_count = 0, !.fraud_count = 0]
           ELSE [search EXCEPT !.keyword_idx = @ + 1]
  /\ UNCHANGED <<given, detectors, call, first_result, feed, ai_scraped_posts,
                 ai_fraud_alerts, classified, handled>>

\* one pass of the loop of _search_keyword (lines 303-427) on the next element
\* of the page
_search_keyword ==
  /\ search.pc = "elements"
  /\ search.idx < search.max_posts * 3
  /\ search.screenshot_count < search.max_posts
  /\ \E post_element \in SearchElements :
       LET seen == ElementTable[post_element]
           clean_text == seen.clean_text
           keyword == search.keywords[search.keyword_idx]
           skipped == [search EXCEPT !.idx = @ + 1]
           took(results) ==
             [scraper |-> "search", content |-> clean_text, results |-> results,
              left |-> 0]
       IN  IF seen.is_sponsored \/ seen.html_length < 100
             THEN /\ search' = skipped
                  /\ UNCHANGED <<ai_scraped_posts, ai_fraud_alerts, classified, handled>>
           ELSE IF clean_text = "" \/ Len(clean_text) < 50
             THEN /\ search' = skipped
                  /\ handled' = took(0)
                  /\ UNCHANGED <<ai_scraped_posts, ai_fraud_alerts, classified>>
           ELSE IF search.test_mode
             THEN /\ search' = [skipped EXCEPT !.screenshot_count = @ + 1]
                  /\ UNCHANGED <<ai_scraped_posts, ai_fraud_alerts, classified, handled>>
           ELSE \E backend \in SearchAnswers :
             LET fraud_result ==
                   FraudResultTable[post_element, backend, search.html_detector.api_key]
                 post_data == build_post_data(keyword, fraud_result)
                 outcome(accepted, sink, failed) ==
                   [scraper |-> "search", input |-> clean_text,
                    content |-> IF IsException(fraud_result) THEN None
                                ELSE fraud_result.content,
                    result |-> fraud_result, calls |-> <<"html_detector">>,
                    accepted |-> accepted, sink |-> sink,
                    failed |-> IF sink = <<>> THEN <<>> ELSE failed,
                    surfaced |-> [i \in 1..Len(sink) |-> "None"]]
             IN  IF IsException(fraud_result) \/ insufficient_content(fraud_result)
                   THEN /\ search' = skipped
                        /\ classified' = outcome(FALSE, <<>>, <<>>)
                        /\ handled' = took(IF IsException(fraud_result) THEN 0 ELSE 1)
                        /\ UNCHANGED <<ai_scraped_posts, ai_fraud_alerts>>
                 ELSE IF fraud_result.fraud_score >= 50
                   THEN \E db_post \in {"ok", "error"}, db_alert \in {"ok", "error"} :
                          /\ search' = [skipped EXCEPT !.posts = Append(@, post_data),
                                                       !.screenshot_count = @ + 1,
                                                       !.fraud_count = @ + 1]
                          /\ ai_scraped_posts' =
                               _store_post(post_data, db_post, ai_scraped_posts)
                          /\ ai_fraud_alerts' =
                               _create_fraud_alert(post_data, fraud_result, db_alert,
                                                   ai_fraud_alerts)
                          /\ classified' =
                               outcome(TRUE, <<"_store_post", "_create_fraud_alert">>,
                                       << db_post # "ok", db_alert # "ok" >>)
                          /\ handled' = took(1)
                 ELSE /\ search' = [skipped EXCEPT !.posts = Append(@, post_data),
                                                   !.screenshot_count = @ + 1]
                      /\ classified' = outcome(FALSE, <<>>, <<>>)
                      /\ handled' = took(1)
                      /\ UNCHANGED <<ai_scraped_posts, ai_fraud_alerts>>
  /\ UNCHANGED <<given, detectors, call, first_result, feed>>

\* _search_keyword, lines 429-435, and search_and_scrape, line 183: the loop
\* is over (no element left, or max_posts reached) and the keyword's posts are
\* added to the run's
_search_keyword_return ==
  /\ search.pc = "elements"
  /\ search' = [search EXCEPT !.pc = "search", !.keyword_idx = @ + 1,
                              !.all_posts = @ \o search.posts,
                              !.posts = <<>>, !.idx = 0,
                              !.screenshot_count = 0, !.fraud_count = 0]
  /\ UNCHANGED <<given, detectors, call, first_result, feed, ai_scraped_posts,
                 ai_fraud_alerts, classified, handled>>

\* search_and_scrape, lines 191-196: every keyword is done
search_and_scrape_return ==
  /\ search.pc = "search"
  /\ search.keyword_idx > Len(search.keywords)
  /\ search' = [search EXCEPT !.pc = "returned", !.returned = << search.all_posts >>]
  /\ UNCHANGED <<given, detectors, call, first_result, feed, ai_scraped_posts,
                 ai_fraud_alerts, classified, handled>>

(***************************************************************************)
(* Threats API                                                             *)
(***************************************************************************)
\* the values the status parameter of PUT /threats/{threat_id}/status accepts
ThreatStatuses == {"open", "investigating", "resolved"}

\* the UPDATE of update_threat_status: the row with the given id gets the
\* given status; no row has the id, or the database raises and the
\* transaction is rolled back: the table is as before
set_threat_status(table, threat_id, status, db) ==
  IF db = "ok" /\ threat_id \in 1..Len(table)
    THEN [table EXCEPT ![threat_id].status = status]
    ELSE table

\* PUT /threats/{threat_id}/status, while or after a search run
update_threat_status ==
  /\ given.kind = "threats"
  /\ \E threat_id \in 1..(Len(ai_fraud_alerts) + 1), status \in ThreatStatuses,
        db \in {"ok", "error"} :
       ai_fraud_alerts' = set_threat_status(ai_fraud_alerts, threat_id, status, db)
  /\ UNCHANGED <<given, detectors, call, first_result, feed, search,
                 ai_scraped_posts, classified, handled>>

(***************************************************************************)
(* Specification                                                           *)
(***************************************************************************)
Next ==
  \/ AnalyzeText
  \/ AnalyzeOtherText
  \/ AnalyzeWithAdapter
  \/ ClassifyKeywords
  \/ scrape_feed
  \/ _scrape_batch
  \/ _process_batch_with_ai
  \/ scrape_feed_extend
  \/ scrape_feed_return
  \/ CancelledError
  \/ search_and_scrape
  \/ _search_keyword_open
  \/ _search_keyword
  \/ _search_keyword_return
  \/ search_and_scrape_return
  \/ update_threat_status

Spec == Init /\ [][Next]_vars

\* One run of scrape_feed left to run to its end: the task is not cancelled.
\* Every await of the run completes or raises: the page operations carry
\* timeouts, the sleeps are finite, and the loops are over finite lists; so
\* the run's next step is eventually taken.
FeedNext ==
  \/ scrape_feed
  \/ _scrape_batch
  \/ _process_batch_with_ai
  \/ scrape_feed_extend
  \/ scrape_feed_return

\* the state after construction, a feed run being what is to execute
FeedRunInit == Init /\ given.kind = "feed"

FeedRun ==
  /\ FeedRunInit
  /\ [][FeedNext]_vars
  /\ WF_vars(FeedNext)

(***************************************************************************)
(* Properties                                                              *)
(***************************************************************************)
Adapters == {"GPTHTMLFraudDetector", "GPTVisionFraudDetector", "VisionFraudDetector"}

\* the fixed fallback result of each adapter
FallbackOf(classifier) ==
  CASE classifier = "GPTHTMLFraudDetector" -> GPTHTML_fallback_analysis
    [] classifier = "GPTVisionFraudDetector" -> GPTVision_fallback_analysis
    [] classifier = "VisionFraudDetector" -> Vision_fallback_analysis

\* a run has classified a post and the classifier returned a result
ClassifiedWithResult ==
  classified.scraper # "none" /\ ~IsException(classified.result)

\* a classifier was called directly and returned a result
CalledWithResult ==
  call.classifier \in Adapters \cup {"FraudDetector"} /\ ~IsException(call.output)

\* the elements of a sequence
Range(q) == {q[i] : i \in 1..Len(q)}

\* the posts the feed run holds as fraud posts: of the batch in progress, of
\* the run so far, and in the returned result
FeedFraudPosts ==
  Range(feed.fraud_posts) \cup Range(feed.all_fraud_posts) \cup
  (IF feed.returned # <<>> /\ "fraud_posts" \in DOMAIN feed.returned[1]
     THEN Range(feed.returned[1].fraud_posts) ELSE {})

\* the posts the search run holds in the list it returns: of the keyword in
\* progress, of the run so far, and in the returned list
SearchPosts ==
  Range(search.posts) \cup Range(search.all_posts) \cup
  (IF search.returned # <<>> THEN Range(search.returned[1]) ELSE {})

\* C1: every post a run has classified is accepted (handed to the persistence
\* sink) if and only if its fraud_score is at least 0.5, whatever the other
\* fields of its result are.
C1_AcceptedIffScoreAtLeastThreshold ==
  ClassifiedWithResult =>
    (classified.accepted <=> classified.result.fraud_score >= 50)

\* C2: in every reachable state every row of the post store and every row of
\* the alert store carries a fraud_score of at least 0.5, and no store call is
\* issued for a post that scored less.
C2_StoresHoldOnlyAcceptedScores ==
  /\ \A row \in Range(ai_scraped_posts) : row.fraud_confidence >= 50
  /\ \A alert \in Range(ai_fraud_alerts) : alert.confidence_score >= 50
  /\ (ClassifiedWithResult /\ classified.sink # <<>>) =>
       classified.result.fraud_score >= 50

\* C2 witness: a search run has stored a post and its alert at exactly 0.5 and
\* has then classified a post at 0.49, which it did not hand to the sink.
C2_Witness ==
  /\ \E row \in Range(ai_scraped_posts) : row.fraud_confidence = 50
  /\ \E alert \in Range(ai_fraud_alerts) : alert.confidence_score = 50
  /\ ClassifiedWithResult
  /\ classified.result.fraud_score = 49
  /\ classified.sink = <<>>

\* C3 as stated: a post that scored below 0.5 is in no store and in no result
\* a run returns, neither scrape_feed's fraud_posts nor the list of
\* search_and_scrape / _search_keyword.
C3_RejectedLeavesNoTrace ==
  /\ \A row \in Range(ai_scraped_posts) : row.fraud_confidence >= 50
  /\ \A alert \in Range(ai_fraud_alerts) : alert.confidence_score >= 50
  /\ \A post \in FeedFraudPosts : post.ai_analysis.fraud_score >= 50
  /\ \A post_data \in SearchPosts : post_data.fraud_score >= 50

\* C3 amended: a post that scored below 0.5 is in no store and not among
\* scrape_feed's fraud_posts; the list the search run returns holds every post
\* that was analysed with at least 20 characters of content, the rejected
\* ones too, and those carry no screenshot name.
C3_RejectedNotStoredButListedBySearch ==
  /\ \A row \in Range(ai_scraped_posts) : row.fraud_confidence >= 50
  /\ \A alert \in Range(ai_fraud_alerts) : alert.confidence_score >= 50
  /\ \A post \in FeedFraudPosts :
       /\ post.ai_analysis.fraud_score >= 50
       /\ \E row \in Range(ai_scraped_posts) :
            row.id = post.fraud_post_id /\ row.content = post.content
  /\ \A post_data \in SearchPosts :
       /\ Len(post_data.content) >= 20
       /\ post_data.fraud_score < 50 <=> post_data.screenshot_filename = None
  /\ (ClassifiedWithResult /\ classified.scraper = "search"
        /\ ~insufficient_content(classified.result)) =>
       \E post_data \in SearchPosts :
         /\ post_data.content = classified.result.content
         /\ post_data.fraud_score = classified.result.fraud_score

\* C3 witness: the search run has returned a list that holds a post scored
\* 0.49, and the post store holds a row, none of them below 0.5.
C3_Witness ==
  /\ search.returned # <<>>
  /\ \E post_data \in Range(search.returned[1]) : post_data.fraud_score = 49
  /\ ai_scraped_posts # <<>>

\* C4: every result of FraudDetector.analyze_text and of each adapter has a
\* fraud_score between 0.0 and 1.0, whatever text is scored and whatever
\* score the backend sends.
C4_ScoreWithinUnitInterval ==
  /\ CalledWithResult => call.output.fraud_score \in 0..100
  /\ ClassifiedWithResult => classified.result.fraud_score \in 0..100

\* C4 witness: an adapter has normalized a backend score of 1.5 to 1.0.
C4_Witness ==
  /\ given.kind = "adapter"
  /\ given.backend.kind = "ok"
  /\ "fraud_score" \in DOMAIN given.backend.analysis
  /\ given.backend.analysis.fraud_score = Number(150)
  /\ CalledWithResult
  /\ call.output.fraud_score = 100

\* C5: every result of the lexical scorer and of each adapter has the risk
\* level its score gives under the 0.7 / 0.4 thresholds, also when the backend
\* supplied a level of its own.
C5_RiskLevelDerivedFromScore ==
  CalledWithResult => call.output.risk_level = risk_level_of(call.output.fraud_score)

\* C6: no adapter call raises, whatever the backend does; each returns a
\* result with the ten fields.
C6_AdaptersNeverRaise ==
  call.classifier \in Adapters =>
    /\ ~IsException(call.output)
    /\ DOMAIN call.output = ResultFields

\* an adapter call of the scenario meets a failure: no API key, no client
\* library, a connection error, a timeout, a non-200 status, a response that
\* is not JSON, input too short after cleaning, or a missing image file
FailureMode(g) ==
  \/ g.backend.kind \in
       {"import_error", "connection_error", "timeout", "status",
        "client_json_error", "invalid_json"}
  \/ "api_key" \in DOMAIN g.self /\ ~g.self.api_key
  \/ g.classifier = "GPTHTMLFraudDetector" /\ g.input = ShortHtml
  \/ g.classifier # "GPTHTMLFraudDetector" /\ ~g.input.exists

\* C7: every failure mode of an adapter call yields that adapter's fixed
\* fallback result (0.0, LOW, analysis_failed), and a post that received the
\* fallback result is never accepted, stored or alerted.
C7_FailureYieldsFallback ==
  /\ (call.classifier \in Adapters /\ FailureMode(given)) =>
       /\ call.output = FallbackOf(call.classifier)
       /\ call.output.fraud_score = 0
       /\ call.output.risk_level = "LOW"
       /\ call.output.fraud_type = "analysis_failed"
  /\ (classified.scraper = "search"
        /\ classified.result = GPTHTML_fallback_analysis) =>
       ~classified.accepted /\ classified.sink = <<>>

\* C8: for empty or whitespace-only text analyze_text returns 0.0, LOW, no
\* keyword, no pattern and the reasoning 'No content to analyze', and no run
\* accepts or stores a post whose content is empty or whitespace.
C8_EmptyTextIsNeverFraud ==
  LET blank_result(r) ==
        /\ r.fraud_score = 0
        /\ r.risk_level = "LOW"
        /\ r.matched_keywords = <<>>
        /\ r.matched_patterns = <<>>
        /\ r.reasoning = "No content to analyze"
  IN  /\ (call.classifier = "FraudDetector" /\ IsBlank(call.text)) =>
           blank_result(call.output)
      /\ (classified.scraper = "feed" /\ IsBlank(classified.content)) =>
           blank_result(classified.result) /\ ~classified.accepted
      /\ (classified.scraper = "search"
            /\ (classified.content = None \/ IsBlank(classified.content))) =>
           ~classified.accepted
      /\ \A row \in Range(ai_scraped_posts) : ~IsBlank(row.content)
      /\ \A alert \in Range(ai_fraud_alerts) : ~IsBlank(alert.content_text)

\* C8 witness: the feed run has classified a post whose content is one space
\* and has discarded it.
C8_Witness ==
  /\ classified.scraper = "feed"
  /\ classified.content = " "
  /\ classified.result.reasoning = "No content to analyze"
  /\ ~classified.accepted

C10_FallbackMovesToNextClassifier ==
  (classified.scraper = "search" /\ classified.result = GPTHTML_fallback_analysis) =>
    /\ Len(classified.calls) >= 2
    /\ classified.calls[1] = "html_detector"
    /\ \A i \in 2..Len(classified.calls) : classified.calls[i] # "html_detector"
    /\ classified.calls[Len(classified.calls)] = "fraud_detector"

\* C11: every post a run takes up for classification gets exactly one
\* classification result, also a post with empty or very short content and a
\* post whose backend call failed, and no post of its batch is left without.
C11_ExactlyOneResultPerPost ==
  handled.scraper # "none" => (handled.results = 1 /\ handled.left = 0)

\* the calls of _scrape_batch, by position in the run, that caught an exception
FailedBatches == {i \in 1..Len(feed.batches) : feed.batches[i].error}

\* the run of scrape_feed has ended with an error result
FeedFailed ==
  feed.pc = "returned" /\ "error" \in DOMAIN feed.returned[1]

\* C12: an acquisition error of scrape_feed is fatal to the run.  A login
\* failure ends the run with an error result before any batch is acquired; a
\* batch whose scraping raised has none of its posts classified, is the last
\* batch the run acquires, and the run ends with an error result.
C12_AcquisitionErrorIsFatal ==
  /\ (FeedFailed /\ feed.returned[1].error = "Login failed") => feed.batches = <<>>
  /\ \A i \in FailedBatches :
       /\ feed.batches[i].posts = 0
       /\ i = Len(feed.batches)
  /\ (feed.pc = "returned" /\ FailedBatches # {}) => FeedFailed

\* what a sink method gives back to its caller when the write succeeded
ValueOnSuccess(method) ==
  IF method = "_store_fraud_post" THEN "id" ELSE "None"

\* the posts scrape_feed acquired, from the calls of _scrape_batch
PostsAcquired ==
  LET sum[i \in 0..Len(feed.batches)] ==
        IF i = 0 THEN 0 ELSE sum[i - 1] + feed.batches[i].posts
  IN  sum[Len(feed.batches)]

\* the rows the feed run has in the post store
FeedRows == {row \in Range(ai_scraped_posts) : row.group_id = "feed"}

\* C13: when storing an accepted post or creating its alert fails, the caller
\* of the failing method can tell the failure from a success by what the
\* method gives back, and the totals scrape_feed returns are the number of
\* posts acquired and the number of posts actually stored.
C13_PersistenceFailureIsSurfaced ==
  /\ classified.scraper # "none" =>
       \A i \in 1..Len(classified.sink) :
         classified.failed[i] =>
           classified.surfaced[i] # ValueOnSuccess(classified.sink[i])
  /\ (feed.pc = "returned" /\ ~FeedFailed) =>
       /\ feed.returned[1].total_scraped = PostsAcquired
       /\ feed.returned[1].total_fraud_detected = Cardinality(FeedRows)

\* the result scrape_feed returned, when it is not an error result
FeedReported ==
  IF feed.pc = "returned" /\ ~FeedFailed
    THEN feed.returned[1]
    ELSE [total_scraped |-> 0, total_fraud_detected |-> 0, fraud_posts |-> <<>>]

\* the list search_and_scrape returned
SearchReported == IF search.pc = "returned" THEN search.returned[1] ELSE <<>>

\* the posts a run has reported as fraud: the members of the fraud_posts that
\* scrape_feed returned, and the posts with a score of at least 0.5 of the
\* list that search_and_scrape returned
ReportedFraudContents ==
  {post.content : post \in Range(FeedReported.fraud_posts)} \cup
  {post_data.content :
     post_data \in {q \in Range(SearchReported) : q.fraud_score >= 50}}

\* C14: every post a run reports as fraud has an alert in the alert store at
\* the time the run reports it, and total_fraud_detected counts no post
\* without one.
C14_ReportedFraudHasAlert ==
  /\ \A content \in ReportedFraudContents :
       \E alert \in Range(ai_fraud_alerts) : alert.content_text = content
  /\ FeedReported.total_fraud_detected <= Len(ai_fraud_alerts)

\* the sink operation a scraper method performs
SinkOperation(method) ==
  IF method = "_create_fraud_alert" THEN "createAlert" ELSE "storePost"

\* C15: for each classified post with a score of at least 0.5 the sink
\* receives exactly one storePost followed by exactly one createAlert, for any
\* other post it receives nothing, and the content stored is the content of
\* the acquired post, unmodified.
C15_OneStoreAndOneAlertPerFraudPost ==
  ClassifiedWithResult =>
    /\ [i \in 1..Len(classified.sink) |-> SinkOperation(classified.sink[i])] =
         IF classified.result.fraud_score >= 50
           THEN <<"storePost", "createAlert">> ELSE <<>>
    /\ (classified.sink # <<>> /\ ~classified.failed[1]) =>
         ai_scraped_posts[Len(ai_scraped_posts)].content = classified.input

\* the position of a status on the path open -> investigating -> resolved
StatusRank(status) ==
  CASE status = "open" -> 1
    [] status = "investigating" -> 2
    [] status = "resolved" -> 3

\* C16: an alert is created with status open, and no step moves the status of
\* an alert backwards on the path open -> investigating -> resolved.
C16_AlertStatusOnlyMovesForward ==
  [][ /\ Len(ai_fraud_alerts') > Len(ai_fraud_alerts) =>
           ai_fraud_alerts'[Len(ai_fraud_alerts')].status = "open"
      /\ \A i \in 1..Len(ai_fraud_alerts) :
           StatusRank(ai_fraud_alerts'[i].status) >=
             StatusRank(ai_fraud_alerts[i].status) ]_vars

\* the posts of the batch in flight that have not been classified
PostsInFlight ==
  IF feed.batch_posts = <<>> THEN 0 ELSE Len(feed.batch_posts) + 1 - feed.idx

\* C17: a run that was stopped from outside has classified every post of the
\* batch that was in flight when the stop arrived, and acquires no further
\* batch.
C17_StopTakesEffectBetweenBatches ==
  /\ [](feed.pc = "cancelled" => PostsInFlight = 0)
  /\ [][feed.pc = "cancelled" => feed'.batches = feed.batches]_vars

\* the calls of _scrape_batch, by position in the run, that read the page
\* without an exception and returned no post
EmptyBatches ==
  {i \in 1..Len(feed.batches) : feed.batches[i].posts = 0 /\ ~feed.batches[i].error}

\* C18: an empty batch ends the acquisition of the run: it is the last batch
\* the run acquires, and the run then ends with its totals.
C18_EmptyBatchEndsRun ==
  \A i \in EmptyBatches : i = Len(feed.batches)

\* C19: the result of a failed run names the batch at which the run stopped
\* and carries the totals accumulated so far.
C19_FailedRunReportsBatchAndTotals ==
  FeedFailed =>
    {"total_scraped", "total_fraud_detected"} \subseteq DOMAIN feed.returned[1]
    /\ \E key \in {"batch", "batch_num"} : key \in DOMAIN feed.returned[1]

\* the fraud posts of the feed run in the order it stored them
FeedFraudSoFar == feed.all_fraud_posts \o feed.fraud_posts

\* the rows the search run has in the post store
SearchRows == {row \in Range(ai_scraped_posts) : row.platform = "facebook_search"}

\* each run's counters and result are those of its own inputs, and each
\* accepted post has a row of its own in the store
RunsAreIndependent ==
  /\ feed.total_scraped = PostsAcquired
  /\ feed.total_fraud_detected = Len(feed.all_fraud_posts)
  /\ FeedReported.fraud_posts \in {<<>>, feed.all_fraud_posts}
  /\ Len(FeedFraudSoFar) = Cardinality(FeedRows)
  /\ \A i \in 1..Len(ai_scraped_posts) : ai_scraped_posts[i].id = i
  /\ \A i \in 1..Len(FeedFraudSoFar) :
       LET post == FeedFraudSoFar[i]
       IN  /\ post.fraud_post_id \in 1..Len(ai_scraped_posts)
           /\ ai_scraped_posts[post.fraud_post_id] =
                feed_row(post, post.ai_analysis, post.fraud_post_id)
           /\ \A j \in 1..(i - 1) :
                FeedFraudSoFar[j].fraud_post_id < post.fraud_post_id
  /\ \A row \in SearchRows :
       \E post_data \in SearchPosts :
         row = search_row(post_data, row.id) /\ post_data.fraud_score >= 50
  /\ Cardinality(SearchRows) <=
       Cardinality({i \in 1..Len(search.posts) : search.posts[i].fraud_score >= 50})
       + Cardinality({i \in 1..Len(search.all_posts) :
                        search.all_posts[i].fraud_score >= 50})

PatternWeight ==
  [phone_number_in_text |-> 20, multiple_payment_methods |-> 15,
   excessive_discounts |-> 25, urgency_pressure |-> 20, guaranteed_returns |-> 30]

\* the sum of PatternWeight over a sequence of pattern names
WeightOfNames(names) ==
  LET total[i \in 0..Len(names)] ==
        IF i = 0 THEN 0 ELSE total[i - 1] + PatternWeight[names[i]]
  IN  total[Len(names)]

\* the patterns of the detector that match the lower-cased text, by name
PatternsMatching(text) ==
  LET text_lower == Lower(text)
  IN  {name \in DOMAIN PatternWeight : re_search(name, text_lower)}

\* PatternsMatching for each text of the model, computed once
PatternTable == [t \in Texts |-> PatternsMatching(t)]

Categories ==
  << [fraud_type |-> "hotel_booking_scam",
      triggers |-> {"hotel", "booking", "resort", "stay", "accommodation"}],
     [fraud_type |-> "investment_scam",
      triggers |-> {"investment", "returns", "profit", "earn", "income"}],
     [fraud_type |-> "gambling_scam",
      triggers |-> {"lottery", "jackpot", "satta", "bet", "casino"}],
     [fraud_type |-> "prostitution_racket",
      triggers |-> {"massage", "escort", "companion", "service"}],
     [fraud_type |-> "fake_documents",
      triggers |-> {"certificate", "passport", "license", "aadhaar", "pan"}],
     [fraud_type |-> "cryptocurrency_scam",
      triggers |-> {"bitcoin", "crypto", "forex", "trading"}],
     [fraud_type |-> "advance_payment_fraud",
      triggers |-> {"advance", "payment", "upi", "transfer"}] >>

\* the categories, by position, that have a trigger occurring in one of the
\* keywords
Triggered(keywords) ==
  {c \in 1..Len(Categories) :
     \E trigger \in Categories[c].triggers, i \in 1..Len(keywords) :
       Contains(Lower(keywords[i]), trigger)}

\* C22: for every list of matched keywords _classify_fraud_type returns the
\* first category, in the order hotel_booking_scam, investment_scam,
\* gambling_scam, prostitution_racket, fake_documents, cryptocurrency_scam,
\* advance_payment_fraud, that has a trigger occurring in a matched keyword,
\* and suspicious_content when none has; a list that triggers two categories
\* gets the earlier one.
C22_FirstTriggeredCategoryWins ==
  call.classifier = "_classify_fraud_type" =>
    LET triggered == Triggered(call.keywords)
    IN  /\ triggered = {} => call.fraud_type = "suspicious_content"
        /\ \A c \in triggered :
             (\A earlier \in 1..(c - 1) : earlier \notin triggered) =>
               call.fraud_type = Categories[c].fraud_type
        /\ \A c \in triggered, d \in triggered :
             c < d => call.fraud_type # Categories[d].fraud_type

\* C22 witness: the keywords "discounted stay" and "earn lakhs" trigger the
\* hotel category and the investment category and were classified
\* hotel_booking_scam.
C22_Witness ==
  /\ call.classifier = "_classify_fraud_type"
  /\ call.keywords = <<"discounted stay", "earn lakhs">>
  /\ Triggered(call.keywords) = {1, 2}
  /\ call.fraud_type = "hotel_booking_scam"

(***************************************************************************)
(* Fields the backend's answer omits                                       *)
(***************************************************************************)
\* the adapter call of the scenario got a JSON object from the backend and
\* returned its normalization
NormalizedAnswer ==
  /\ call.classifier \in Adapters
  /\ given.backend.kind = "ok"
  /\ ~FailureMode(given)
  /\ ~IsException(call.output)
  /\ call.output # FallbackOf(call.classifier)

\* C23: in the normalized result of each adapter a fraud_score the backend
\* omitted is 0.0, an omitted risk_level is the level of the clamped score
\* under the 0.7 / 0.4 thresholds, omitted red_flags and matched_keywords are
\* empty lists, an omitted reasoning is the placeholder string, and the
\* reasoning is never empty.
C23_OmittedFieldsAreFilled ==
  NormalizedAnswer =>
    LET analysis == given.backend.analysis
        omitted(key) == key \notin DOMAIN analysis
    IN  /\ omitted("fraud_score") => call.output.fraud_score = 0
        /\ omitted("risk_level") =>
             call.output.risk_level =
               (IF call.output.fraud_score >= 70 THEN "HIGH"
                ELSE IF call.output.fraud_score >= 40 THEN "MEDIUM" ELSE "LOW")
        /\ omitted("red_flags") => call.output.red_flags = <<>>
        /\ omitted("matched_keywords") => call.output.matched_keywords = <<>>
        /\ omitted("reasoning") => call.output.reasoning = "No analysis provided"
        /\ call.output.reasoning # ""

(***************************************************************************)
(* The order of acquisition and classification in a feed run               *)
(***************************************************************************)
\* C24: within a run of scrape_feed acquisition and classification alternate.
\* When _scrape_batch starts for the next batch, every post of the batch
\* before has been classified (and, if accepted, handed to the store); and a
\* post is classified or stored only when the acquisition of its batch has
\* returned and no later acquisition has started.
C24_AcquisitionWaitsForEveryPostOfTheBatch ==
  [][ /\ _scrape_batch =>
           /\ PostsInFlight = 0
           /\ handled.scraper = "feed" => handled.left = 0
      /\ _process_batch_with_ai =>
           /\ Len(feed.batches) = feed.batch_num + 1
           /\ feed.batches[Len(feed.batches)].posts = Len(feed.batch_posts) ]_vars

(***************************************************************************)
(* Termination of a feed run                                               *)
(***************************************************************************)
\* the run has returned the totals after the last requested batch
FeedDone ==
  /\ feed.pc = "returned"
  /\ DOMAIN feed.returned[1] = {"total_scraped", "total_fraud_detected", "fraud_posts"}
  /\ feed.batch_num = feed.num_batches

C27_FraudTypeIsOfTheClosedSet ==
  LET closed ==
        {Categories[c].fraud_type : c \in 1..Len(Categories)} \cup
        {"suspicious_content", "analysis_failed", "legitimate"}
  IN  /\ CalledWithResult => call.output.fraud_type \in closed
      /\ ClassifiedWithResult => classified.result.fraud_type \in closed

(***************************************************************************)
(* matched_keywords as a set of labels                                     *)
(***************************************************************************)
\* the keywords of the detector that occur in the lower-cased text, each once
KeywordsFound(text) ==
  {_load_fraud_keywords[i] : i \in
     {j \in 1..Len(_load_fraud_keywords) :
        Contains(Lower(text), Lower(_load_fraud_keywords[j]))}}

\* C28: in the result of analyze_text for the given text no label occurs in
\* matched_keywords more than once, and the keyword part of the score is 0.15
\* for each distinct keyword found in the text, capped at 0.6.
C28_MatchedKeywordsHoldNoLabelTwice ==
  (call.classifier = "FraudDetector" /\ call.text = given.text /\ ~IsBlank(call.text)) =>
    LET matched == call.output.matched_keywords
        found == KeywordsFound(call.text)
    IN  /\ \A i \in 1..Len(matched), j \in 1..Len(matched) :
             matched[i] = matched[j] => i = j
        /\ Len(matched) = Cardinality(found)
        /\ call.output.fraud_score =
             Min(Min(15 * Cardinality(found), 60)
                   + Min(WeightOfNames(call.output.matched_patterns), 40), 100)

(***************************************************************************)
(* Classification of every post of a batch                                 *)
(***************************************************************************)
\* C29: every post _scrape_batch returned for a batch is classified exactly
\* once by _process_batch_with_ai, whatever happens while an earlier post of
\* the batch is processed: each pass of the loop classifies the post it is at
\* and leaves the loop at the post that follows it, so that the loop ends only
\* after the last post of the batch.
C29_EveryPostOfTheBatchIsClassifiedOnce ==
  [][_process_batch_with_ai =>
       /\ handled'.scraper = "feed"
       /\ handled'.content = feed.batch_posts[feed.idx].content
       /\ handled'.results = 1
       /\ feed'.idx = feed.idx + 1]_vars

(***************************************************************************)
(* The counters of the feed scraper                                        *)
(***************************************************************************)
\* C30: in every state of a FacebookFeedScraper 0 <= total_fraud_detected <=
\* total_scraped; no step decreases either counter; between batches and after
\* the run total_fraud_detected is the number of posts for which
\* _store_fraud_post returned an id (the store returns an id exactly when it
\* has inserted the row); and whether a post is accepted is decided by the
\* score of its content alone, whatever the counters are.
C30_CountersAreObservational ==
  /\ [](/\ 0 <= feed.total_fraud_detected
        /\ feed.total_fraud_detected <= feed.total_scraped)
  /\ [][/\ feed'.total_scraped >= feed.total_scraped
        /\ feed'.total_fraud_detected >= feed.total_fraud_detected]_vars
  /\ [](feed.pc \in {"scrape", "returned"} =>
          feed.total_fraud_detected = Cardinality(FeedRows))
  /\ [](classified.scraper = "feed" =>
          (classified.accepted <=>
             Analyze(FraudDetector, classified.content).fraud_score >= 50))

\* C30 witness: a run of two batches has returned; it scraped four posts and
\* counted two fraud posts, the two rows it has in the store; the last post
\* it classified was accepted, but the store returned no id for it and it
\* was not counted.
C30_Witness ==
  /\ feed.pc = "returned"
  /\ ~FeedFailed
  /\ Len(feed.batches) = 2
  /\ feed.returned[1].total_scraped = 4
  /\ feed.returned[1].total_fraud_detected = 2
  /\ Cardinality(FeedRows) = 2
  /\ classified.scraper = "feed"
  /\ classified.accepted
  /\ classified.surfaced = <<"None">>
====
